---- MODULE Spec2Model ----
(***************************************************************************)
(* A model of beeminder.py: the Goal class and its derived metrics, the    *)
(* variant dispatch create_goal, and the AllGoals store with its           *)
(* concurrent hydration and its filter pipeline.                           *)
(*                                                                         *)
(* Time is counted in half days: a naive datetime is an integer number of  *)
(* half days, a date is the integer number of whole days.  Optional values *)
(* (Python None) are sequences of length at most one.                      *)
(***************************************************************************)
EXTENDS Integers, Sequences, FiniteSets, TLC

VARIABLES
    goals,      \* AllGoals.goals: the list of Goal objects
    remote,     \* the remote service: the full records it serves, in list order
    now,        \* the module-level `now`, taken once at start-up
    clk,        \* the wall clock read by datetime.now()
    pc,         \* position of the main program
    cacheFile,  \* the cache file found on disk at start-up
    netPulls,   \* number of goals.json requests made
    futures,    \* ensure_datapoints: state of the future submitted per goal
    hydPc,      \* ensure_datapoints: position of the calling thread
    fparams,    \* arguments of the last filter_goals call
    fresult,    \* result of the last filter_goals call
    ret         \* value returned by the last property read

vars == <<goals, remote, now, clk, pc, cacheFile, netPulls, futures, hydPc,
          fparams, fresult, ret>>

\* ---------------------------------------------------------------- bounds

MaxDps == 3        \* longest datapoint list of a record
MaxTick == 1       \* most half days the clock advances during one call

\* ------------------------------------------------------- time and options

DayLen == 2        \* half days per day
H24 == 2           \* timedelta(hours=24), in half days

None == <<>>
Some(x) == <<x>>

date(t) == t \div DayLen

\* Builtin sorted(s, key=...): the stable ascending sort.
sorted(s, key(_)) ==
    LET n == Len(s)
        rank(i) == Cardinality({j \in 1..n :
                        \/ key(s[j]) < key(s[i])
                        \/ (key(s[j]) = key(s[i]) /\ j < i)}) + 1
    IN  [k \in 1..n |-> s[CHOOSE i \in 1..n : rank(i) = k]]

\* ------------------------------------------------------------- Datapoint

Datapoint(ts, v) == [timestamp |-> ts, value |-> v]

\* Datapoint.is_updated_today
dp_is_updated_today(dp) == date(dp.timestamp) >= date(now)

\* ------------------------------------------------------------------ Goal

\* Goal.__init__: the attributes copied from the snapshot `goal` at
\* construction, the snapshot itself as `dictionary`, and the two
\* functools.cached_property slots, empty.  cls is the class instantiated.
Goal(cls, goal) ==
    [cls |-> cls,
     _losedate |-> goal.losedate,
     slug |-> goal.slug,
     title |-> goal.title,
     autodata |-> goal.autodata,
     type |-> goal.goal_type,
     safebump |-> goal.safebump,
     curval |-> goal.curval,
     runits |-> goal.runits,
     last_datapoint |-> goal.last_datapoint,
     dictionary |-> goal,
     won |-> goal.won,
     data_rate |-> None,
     format_epsilon_delta |-> None]

NotImplemented == [kind |-> "NotImplemented", num |-> 0, den |-> 1]
ZeroDivisionError == [kind |-> "ZeroDivisionError", num |-> 0, den |-> 0]
Fraction(n, d) == IF d = 0 THEN ZeroDivisionError
                  ELSE [kind |-> "float", num |-> n, den |-> d]

\* Goal.rate
rate(g) ==
    IF g.dictionary.rate = None THEN g.dictionary.mathishard[3]
    ELSE g.dictionary.rate[1]

\* Goal.rate_timedelta, in days.  The horizon is date - timedelta, and date
\* arithmetic uses only the whole days of the timedelta: an hour is 0 days.
rate_timedelta(g) ==
    CASE g.runits = "y" -> 365
      [] g.runits = "m" -> 30
      [] g.runits = "w" -> 7
      [] g.runits = "d" -> 1
      [] g.runits = "h" -> 0

\* Goal.datapoints
datapoints(g) == sorted(g.dictionary.datapoints, LAMBDA dp : dp.timestamp)

\* Goal.ensure_datapoints: does the goal fetch its full record?
needs_fetch(g) == g.dictionary.datapoints = <<>>

\* Goal.get_full_data, given the record r the request returned.
get_full_data(g, r) == [g EXCEPT !.dictionary = r]

\* Goal.ensure_datapoints, given the record r a request would return.
ensure_datapoints(g, r) == IF needs_fetch(g) THEN get_full_data(g, r) ELSE g

CumulativeTypes == {"biker", "fatloser", "gainer", "inboxer"}
IncrementalTypes == {"hustler", "drinker"}

RECURSIVE SumValues(_)
SumValues(s) == IF s = <<>> THEN 0 ELSE s[1].value + SumValues(Tail(s))

\* total_values with a missing baseline taken as 0.
total_values_zero_baseline(type, relevant_datapoints, irrelevant_datapoints) ==
    IF type \in CumulativeTypes THEN
        IF relevant_datapoints # <<>> THEN
            IF irrelevant_datapoints # <<>> THEN
                Some(relevant_datapoints[Len(relevant_datapoints)].value
                     - irrelevant_datapoints[Len(irrelevant_datapoints)].value)
            ELSE Some(relevant_datapoints[Len(relevant_datapoints)].value)
        ELSE Some(0)
    ELSE IF type \in IncrementalTypes THEN
        Some(SumValues(relevant_datapoints))
    ELSE None

\* total_values with the first datapoint of the window in place of the last.
total_values_first_in_window(type, relevant_datapoints, irrelevant_datapoints) ==
    IF type \in CumulativeTypes THEN
        IF relevant_datapoints # <<>> THEN
            IF irrelevant_datapoints # <<>> THEN
                Some(relevant_datapoints[1].value
                     - irrelevant_datapoints[Len(irrelevant_datapoints)].value)
            ELSE None
        ELSE Some(0)
    ELSE IF type \in IncrementalTypes THEN
        Some(SumValues(relevant_datapoints))
    ELSE None

\* The if/elif/else of Goal.data_rate that yields total_values from the
\* sorted datapoints after (relevant) and up to (irrelevant) the horizon:
\* None stands for `return NotImplemented`.
total_values(type, relevant_datapoints, irrelevant_datapoints) ==
    IF type \in CumulativeTypes THEN
        IF relevant_datapoints # <<>> THEN
            IF irrelevant_datapoints # <<>> THEN
                Some(relevant_datapoints[Len(relevant_datapoints)].value
                     - irrelevant_datapoints[Len(irrelevant_datapoints)].value)
            ELSE None
        ELSE Some(0)
    ELSE IF type \in IncrementalTypes THEN
        Some(SumValues(relevant_datapoints))
    ELSE None

\* The last line of Goal.data_rate: total_values / self.rate.
quotient(total, r) ==
    IF total = None THEN NotImplemented ELSE Fraction(total[1], r)

\* Goal.data_rate from the two sorted, filtered lists on.
data_rate_from(g, dps, horizon) ==
    quotient(total_values(g.type,
                          sorted(SelectSeq(dps, LAMBDA dp : horizon < date(dp.timestamp)),
                                 LAMBDA dp : dp.timestamp),
                          sorted(SelectSeq(dps, LAMBDA dp : date(dp.timestamp) <= horizon),
                                 LAMBDA dp : dp.timestamp)),
             rate(g))

\* The body of Goal.data_rate, read at time t, where r is the record a
\* request made by ensure_datapoints would return.
data_rate_body(g, r, t) ==
    IF rate(g) = 0 THEN NotImplemented
    ELSE data_rate_from(ensure_datapoints(g, r),
                        datapoints(ensure_datapoints(g, r)),
                        date(t) - rate_timedelta(g))

\* Comparisons of a float given as num/den.
GeOne(f) == IF f.den > 0 THEN f.num >= f.den ELSE f.num <= f.den
GtZero(f) == f.num * f.den > 0
EqZero(f) == f.num = 0

\* format_epsilon_delta with `1 < fraction` in place of `1 <= fraction`.
format_epsilon_delta_body_strict(g, fraction) ==
    IF fraction.kind = "NotImplemented" THEN "?"
    ELSE IF g.type = "drinker" THEN
        IF GeOne(fraction) /\ fraction.num # fraction.den THEN "!"
        ELSE IF GtZero(fraction) THEN "ε"
        ELSE IF EqZero(fraction) THEN "Δ"
        ELSE "?"
    ELSE
        IF GeOne(fraction) /\ fraction.num # fraction.den THEN "Δ"
        ELSE IF GtZero(fraction) THEN "ε"
        ELSE IF EqZero(fraction) THEN "0"
        ELSE "!"

\* The body of Goal.format_epsilon_delta, given the value of data_rate.
format_epsilon_delta_body(g, fraction) ==
    IF fraction.kind = "NotImplemented" THEN "?"
    ELSE IF g.type = "drinker" THEN
        IF GeOne(fraction) THEN "!"
        ELSE IF GtZero(fraction) THEN "ε"
        ELSE IF EqZero(fraction) THEN "Δ"
        ELSE "?"
    ELSE
        IF GeOne(fraction) THEN "Δ"
        ELSE IF GtZero(fraction) THEN "ε"
        ELSE IF EqZero(fraction) THEN "0"
        ELSE "!"

\* Goal.losedate (the second definition, which replaces the first)
losedate(g) == g._losedate

\* is_due_today without the 24 hours.
is_due_today_no_horizon(g, t) == losedate(g) <= t

\* Goal.is_due_today, read at time t
is_due_today(g, t) == losedate(g) <= t + H24

\* Goal.color: the colour, or "ValueError" for the raise.
color(g) ==
    LET lane == g.dictionary.lane
        yaw == g.dictionary.yaw
    IN  IF lane * yaw >= 0 - 1 THEN "blue"
        ELSE IF lane * yaw > 1 THEN "green"
        ELSE IF lane * yaw = 1 THEN "yellow"
        ELSE IF lane * yaw = 0 - 1 THEN "orange"
        ELSE IF lane * yaw <= 0 - 2 THEN "red"
        ELSE "ValueError"

\* Goal.is_do_less
is_do_less(g) == g.type = "drinker"

\* str.lower, on the slugs and titles of the model.
lower(str) == IF str = "Tasker steps" THEN "tasker steps" ELSE str

\* "tasker" in str, on the lowered slugs and titles of the model.
has_tasker(str) == str \in {"tasker-steps", "tasker steps"}

\* Goal.is_tasker_goal
is_tasker_goal(g) == has_tasker(lower(g.slug)) \/ has_tasker(lower(g.title))

\* Goal.is_manual
is_manual(g) == IF is_tasker_goal(g) THEN FALSE ELSE g.autodata = None

\* Goal.is_updated_today, and its override in TogglGoal
is_updated_today(g) ==
    IF g.cls = "TogglGoal" THEN ~(g.last_datapoint.value = 0)
    ELSE dp_is_updated_today(g.last_datapoint)

\* ------------------------------------------------------------ create_goal

custom_goals ==
    [slug \in {"todoist-backlog", "todoist-unprioritized", "todoist-breakdown",
               "todoist-inbox", "youtube-backlog-upgrade", "papers-backlog",
               "joplin-notes", "papers-notes", "screenshots-parse", "jrnl"} |->
        CASE slug = "todoist-backlog" -> "TodoistBacklog"
          [] slug = "todoist-unprioritized" -> "TodoistUnprioritized"
          [] slug = "todoist-breakdown" -> "TodoistHighPriority"
          [] slug = "todoist-inbox" -> "TodoistInbox"
          [] slug = "youtube-backlog-upgrade" -> "YoutubeBacklogGoal"
          [] slug = "papers-backlog" -> "PubsCountGoal"
          [] slug = "joplin-notes" -> "JoplinNoteCountGoal"
          [] slug = "papers-notes" -> "PapersNoteCountGoal"
          [] slug = "screenshots-parse" -> "ScreenshotCountGoal"
          [] slug = "jrnl" -> "JrnlLengthGoal"]

\* create_goal with the autodata tests made before the registry lookup.
create_goal_cls_autodata_first(goal) ==
    IF goal.autodata = None \/ goal.autodata = Some("api") THEN
        IF goal.slug \in DOMAIN custom_goals THEN custom_goals[goal.slug]
        ELSE "Goal"
    ELSE IF goal.autodata = Some("toggl") THEN "TogglGoal"
    ELSE IF goal.autodata # Some("api") THEN "RemoteApiGoal"
    ELSE "ValueError"

\* The class create_goal instantiates for a snapshot, or "ValueError".
create_goal_cls(goal) ==
    IF goal.slug \in DOMAIN custom_goals THEN custom_goals[goal.slug]
    ELSE IF goal.autodata = None \/ goal.autodata = Some("api") THEN "Goal"
    ELSE IF goal.autodata = Some("toggl") THEN "TogglGoal"
    ELSE IF goal.autodata # Some("api") THEN "RemoteApiGoal"
    ELSE "ValueError"

create_goal(goal) == Goal(create_goal_cls(goal), goal)

\* ---------------------------------------------------- the remote service

\* goals/<slug>.json with datapoints=true: the full record of the slug.
goal_json(slug) ==
    remote[CHOOSE k \in DOMAIN remote :
              /\ remote[k].slug = slug
              /\ \A j \in 1..(k - 1) : remote[j].slug # slug]

\* goals.json: every record, without its datapoints.
goals_json == [k \in DOMAIN remote |-> [remote[k] EXCEPT !.datapoints = <<>>]]

\* ------------------------------------------------- reads of the properties

NoRet == [op |-> "none"]
Raised(op, i, exc) == [op |-> op, goal |-> i, raised |-> TRUE, exc |-> exc]
Returned(op, i, v, t) == [op |-> op, goal |-> i, raised |-> FALSE, val |-> v, at |-> t]

Outcome(g, raised, val) == [goal |-> g, raised |-> raised, val |-> val]

\* functools.cached_property: the value v the body gave is stored in the slot
\* of the goal g; a raise stores nothing.
data_rate_store(g, v) ==
    IF v.kind = "ZeroDivisionError" THEN Outcome(g, TRUE, "ZeroDivisionError")
    ELSE Outcome([g EXCEPT !.data_rate = Some(v)], FALSE, v)

\* What one evaluation of g.data_rate at time t does to the goal and what it
\* gives: the memoized value if there is one; else the body, whose request
\* (if it makes one) succeeds with the remote record r or fails.
data_rate_eval(g, r, ok, t) ==
    IF g.data_rate # None THEN Outcome(g, FALSE, g.data_rate[1])
    ELSE IF rate(g) = 0 THEN data_rate_store(g, NotImplemented)
    ELSE IF needs_fetch(g) /\ ~ok THEN Outcome(g, TRUE, "ConnectionError")
    ELSE data_rate_store(ensure_datapoints(g, r), data_rate_body(g, r, t))

format_epsilon_delta_store(g, v) ==
    Outcome([g EXCEPT !.format_epsilon_delta = Some(v)], FALSE, v)

\* format_epsilon_delta once self.data_rate has been evaluated, with outcome dr.
format_epsilon_delta_after(dr) ==
    IF dr.raised THEN dr
    ELSE format_epsilon_delta_store(dr.goal,
                                    format_epsilon_delta_body(dr.goal, dr.val))

\* One evaluation of g.format_epsilon_delta.
format_epsilon_delta_eval(g, r, ok, t) ==
    IF g.format_epsilon_delta # None
    THEN Outcome(g, FALSE, g.format_epsilon_delta[1])
    ELSE format_epsilon_delta_after(data_rate_eval(g, r, ok, t))

\* Does the evaluation make a request to the remote service?
data_rate_fetches(g) == g.data_rate = None /\ rate(g) # 0 /\ needs_fetch(g)

Oks(fetches) == IF fetches THEN BOOLEAN ELSE {TRUE}

\* A read of a property of goals[i] that gave the outcome e.
Read(op, i, e) ==
    /\ goals' = [goals EXCEPT ![i] = e.goal]
    /\ ret' = IF e.raised THEN Raised(op, i, e.val)
              ELSE Returned(op, i, e.val, clk)
    /\ UNCHANGED <<remote, now, clk, pc, cacheFile, netPulls, futures, hydPc,
                   fparams, fresult>>

ReadDataRate(i) ==
    /\ pc = "ready"
    /\ hydPc = "idle"
    /\ \E ok \in Oks(data_rate_fetches(goals[i])) :
        Read("data_rate", i,
             data_rate_eval(goals[i], goal_json(goals[i].slug), ok, clk))

ReadFormatEpsilonDelta(i) ==
    /\ pc = "ready"
    /\ hydPc = "idle"
    /\ \E ok \in Oks(goals[i].format_epsilon_delta = None
                     /\ data_rate_fetches(goals[i])) :
        Read("format_epsilon_delta", i,
             format_epsilon_delta_eval(goals[i], goal_json(goals[i].slug), ok, clk))

\* ------------------------------------- the metrics, over bounded snapshots

Types == CumulativeTypes \cup IncrementalTypes \cup {"custom"}
Runits == {"w", "d", "h"}
RateInputs == {[rate |-> Some(10), mathishard |-> <<0, 0, 10>>],
               [rate |-> Some(0 - 10), mathishard |-> <<0, 0, 0 - 10>>],
               [rate |-> Some(0), mathishard |-> <<0, 0, 0>>],
               [rate |-> None, mathishard |-> <<0, 0, 5>>]}

\* The clock of the metric checks: the afternoon of day 8.
RateNow == 17
\* Timestamps 8 days ago, 1 day ago and today.
DpStamps == {0, 14, 16}
DpValues == {0, 5}
Dps == {Datapoint(ts, v) : ts \in DpStamps, v \in DpValues}
DpSeqs == UNION {[1..n -> Dps] : n \in 0..MaxDps}

Snapshot(slug, autodata, type, runits, ri, dps, lose, lane, yaw) ==
    [slug |-> slug, title |-> slug, autodata |-> autodata, goal_type |-> type,
     runits |-> runits, losedate |-> lose, safebump |-> 1, curval |-> 0,
     last_datapoint |-> Datapoint(0, 0), won |-> FALSE,
     rate |-> ri.rate, mathishard |-> ri.mathishard,
     lane |-> lane, yaw |-> yaw, datapoints |-> dps]

RateSnapshots ==
    {Snapshot("books", None, ty, u, ri, dps, 30, 1, 1) :
        ty \in Types, u \in Runits, ri \in RateInputs, dps \in DpSeqs}

Idle == <<>>
NoCache == [status |-> "absent", content |-> <<>>]
NoParams == [called |-> FALSE]

InitRate ==
    /\ \E d \in RateSnapshots :
        /\ goals = <<create_goal(d)>>
        /\ remote = <<d>>
    /\ now = RateNow
    /\ clk = RateNow
    /\ pc = "ready"
    /\ cacheFile = NoCache
    /\ netPulls = 1
    /\ futures = Idle
    /\ hydPc = "idle"
    /\ fparams = NoParams
    /\ fresult = <<>>
    /\ ret = NoRet

NextRate ==
    \/ \E i \in DOMAIN goals : ReadDataRate(i)
    \/ \E i \in DOMAIN goals : ReadFormatEpsilonDelta(i)

SpecRate == InitRate /\ [][NextRate]_vars

\* ------------------------------------------------------------------------
\* Properties of data_rate and format_epsilon_delta (under SpecRate)
\* ------------------------------------------------------------------------

\* The goal the last read was made on, as the read left it.
RetGoal == goals[ret.goal]
DataRateReturned == ret.op = "data_rate" /\ ~ret.raised
GlyphReturned == ret.op = "format_epsilon_delta" /\ ~ret.raised

\* Indices of the raw datapoints of g dated up to / after the horizon of a
\* read at time t.
BeforeHorizon(g, t) ==
    {k \in DOMAIN g.dictionary.datapoints :
        date(g.dictionary.datapoints[k].timestamp) <= date(t) - rate_timedelta(g)}
WithinWindow(g, t) ==
    {k \in DOMAIN g.dictionary.datapoints :
        date(g.dictionary.datapoints[k].timestamp) > date(t) - rate_timedelta(g)}
\* The latest datapoint among the indices S (of equal timestamps, the one
\* listed last).
Latest(g, S) ==
    LET dps == g.dictionary.datapoints
    IN  CHOOSE i \in S : \A j \in S :
            \/ dps[j].timestamp < dps[i].timestamp
            \/ (dps[j].timestamp = dps[i].timestamp /\ j <= i)
Abs(x) == IF x < 0 THEN 0 - x ELSE x
\* num/den = n/d for non-zero den and d
EqualsRatio(f, n, d) == f.kind = "float" /\ f.num * d = n * f.den

CumulativeNonZero(g) == g.type \in CumulativeTypes /\ rate(g) # 0

\* C5 as claimed: a cumulative-total goal with non-zero rate and no datapoint
\* on or before the horizon has an undefined data_rate, whatever lies in the
\* window (nothing included).
C5_Original ==
    DataRateReturned /\ CumulativeNonZero(RetGoal)
        /\ BeforeHorizon(RetGoal, ret.at) = {}
    => ret.val = NotImplemented

\* C5 (amended): a cumulative-total goal with non-zero rate and no datapoint on
\* or before the horizon has an undefined data_rate when at least one
\* datapoint lies within the window, and data_rate 0 when none does.
C5_NoBaseline ==
    DataRateReturned /\ CumulativeNonZero(RetGoal)
        /\ BeforeHorizon(RetGoal, ret.at) = {}
    => IF WithinWindow(RetGoal, ret.at) # {}
       THEN ret.val = NotImplemented
       ELSE EqualsRatio(ret.val, 0, 1)

C5_Witness ==
    /\ DataRateReturned /\ CumulativeNonZero(RetGoal)
    /\ BeforeHorizon(RetGoal, ret.at) = {}
    /\ Cardinality(WithinWindow(RetGoal, ret.at)) = 2
    /\ ret.val = NotImplemented

\* The earned amount of a cumulative goal with a baseline and a datapoint in
\* the window.
Earned(g, t) ==
    g.dictionary.datapoints[Latest(g, WithinWindow(g, t))].value
    - g.dictionary.datapoints[Latest(g, BeforeHorizon(g, t))].value

HasBaselineAndWindow ==
    /\ DataRateReturned /\ CumulativeNonZero(RetGoal)
    /\ BeforeHorizon(RetGoal, ret.at) # {}
    /\ WithinWindow(RetGoal, ret.at) # {}

\* The scenario: rate 10 a week, datapoints (8 days ago, 0) and (1 day ago, 5).
IsBooksScenario(g) ==
    /\ g.type \in CumulativeTypes
    /\ rate(g) = 10 /\ g.runits = "w"
    /\ g.dictionary.datapoints = <<Datapoint(0, 0), Datapoint(14, 5)>>

BooksScenario ==
    /\ (DataRateReturned /\ IsBooksScenario(RetGoal)
            => EqualsRatio(ret.val, 1, 2))
    /\ (GlyphReturned /\ IsBooksScenario(RetGoal) => ret.val = "ε")

\* C6 as claimed: with a baseline and a datapoint in the window, data_rate is
\* (latest value within the window - latest value before the horizon) divided
\* by the magnitude of the rate; the scenario gives 0.5 and the at-risk glyph.
C6_Original ==
    /\ (HasBaselineAndWindow
            => EqualsRatio(ret.val, Earned(RetGoal, ret.at), Abs(rate(RetGoal))))
    /\ BooksScenario

\* C6 (amended): with a baseline and a datapoint in the window, data_rate is
\* (latest value within the window - latest value before the horizon) divided
\* by the rate itself, sign included; the scenario gives 0.5 and the at-risk
\* glyph.
C6_EarnedOverRate ==
    /\ (HasBaselineAndWindow
            => EqualsRatio(ret.val, Earned(RetGoal, ret.at), rate(RetGoal)))
    /\ BooksScenario

C6_Witness ==
    /\ GlyphReturned /\ IsBooksScenario(RetGoal)
    /\ RetGoal.data_rate = Some(Fraction(5, 10))
    /\ ret.val = "ε"

\* The bands of a defined data_rate num/den.
BandGeOne(f) == (f.num - f.den) * f.den >= 0
BandBetween(f) == f.num * f.den > 0 /\ (f.num - f.den) * f.den < 0
BandZero(f) == f.num = 0
BandNegative(f) == f.num * f.den < 0

\* The classification of goals that are not do-less.
PlainGlyph(f) ==
    IF f.kind = "NotImplemented" THEN "?"
    ELSE IF BandGeOne(f) THEN "Δ"
    ELSE IF BandBetween(f) THEN "ε"
    ELSE IF BandZero(f) THEN "0"
    ELSE "!"

\* C7 as claimed: undefined gives "?"; goals that are not do-less map >= 1 to
\* on-pace, (0,1) to at-risk, 0 to none-yet and < 0 to behind; do-less goals
\* exchange the outcomes of >= 1 and of 0 and map the other bands the same.
C7_Original ==
    GlyphReturned /\ RetGoal.data_rate # None =>
        LET f == RetGoal.data_rate[1]
        IN  IF RetGoal.type = "drinker" /\ f.kind = "float" /\ BandGeOne(f)
            THEN ret.val = "0"
            ELSE IF RetGoal.type = "drinker" /\ f.kind = "float" /\ BandZero(f)
            THEN ret.val = "Δ"
            ELSE ret.val = PlainGlyph(f)

\* C7 (amended): undefined gives "?"; goals that are not do-less map >= 1 to
\* on-pace, (0,1) to at-risk, 0 to none-yet and < 0 to behind; do-less goals
\* map >= 1 to the behind glyph, (0,1) to at-risk, 0 to the on-pace glyph and
\* < 0 to "?".
C7_Classification ==
    GlyphReturned /\ RetGoal.data_rate # None =>
        LET f == RetGoal.data_rate[1]
        IN  IF RetGoal.type # "drinker" \/ f.kind = "NotImplemented"
            THEN ret.val = PlainGlyph(f)
            ELSE /\ BandGeOne(f) => ret.val = "!"
                 /\ BandBetween(f) => ret.val = "ε"
                 /\ BandZero(f) => ret.val = "Δ"
                 /\ BandNegative(f) => ret.val = "?"

C7_Witness ==
    /\ GlyphReturned /\ RetGoal.type = "drinker"
    /\ RetGoal.data_rate # None
    /\ RetGoal.data_rate[1].kind = "float"
    /\ BandNegative(RetGoal.data_rate[1])
    /\ ret.val = "?"

\* ------------------------------------------------------------------------
\* AllGoals.__init__, and the colour and the variant of a goal (SpecGoal)
\* ------------------------------------------------------------------------

\* AllGoals.__init__: one goals.json request, then create_goal on each
\* snapshot of the answer.  The cache file is neither read nor written.
Construct ==
    /\ pc = "start"
    /\ netPulls' = netPulls + 1
    /\ LET r == goals_json
       IN  IF \E k \in DOMAIN r : create_goal_cls(r[k]) = "ValueError"
           THEN /\ pc' = "raised"
                /\ goals' = goals
           ELSE /\ pc' = "ready"
                /\ goals' = [k \in DOMAIN r |-> create_goal(r[k])]
    /\ UNCHANGED <<remote, now, clk, cacheFile, futures, hydPc, fparams,
                   fresult, ret>>

ReadColor(i) ==
    /\ pc = "ready"
    /\ hydPc = "idle"
    /\ ret' = IF color(goals[i]) = "ValueError"
              THEN Raised("color", i, "ValueError")
              ELSE Returned("color", i, color(goals[i]), clk)
    /\ UNCHANGED <<goals, remote, now, clk, pc, cacheFile, netPulls, futures,
                   hydPc, fparams, fresult>>

MaxLane == 3       \* largest magnitude of lane
Lanes == (0 - MaxLane)..MaxLane
Yaws == {0 - 1, 1, 2}
Slugs == DOMAIN custom_goals \cup {"books", "tasker-steps"}
Autodatas == {None, Some("api"), Some("toggl"), Some("ifttt")}

GoalSnapshots ==
    {Snapshot(slug, a, "hustler", "w", [rate |-> Some(10), mathishard |-> <<0, 0, 10>>],
              <<Datapoint(16, 5)>>, 30, lane, yaw) :
        slug \in Slugs, a \in Autodatas, lane \in Lanes, yaw \in Yaws}

InitGoal ==
    /\ \E d \in GoalSnapshots : remote = <<d>>
    /\ goals = <<>>
    /\ now = RateNow
    /\ clk = RateNow
    /\ pc = "start"
    /\ cacheFile = NoCache
    /\ netPulls = 0
    /\ futures = Idle
    /\ hydPc = "idle"
    /\ fparams = NoParams
    /\ fresult = <<>>
    /\ ret = NoRet

NextGoal ==
    \/ Construct
    \/ \E i \in DOMAIN goals : ReadColor(i)

SpecGoal == InitGoal /\ [][NextGoal]_vars

\* C8: the colour follows the product lane*yaw: > 1 green, 1 yellow, -1
\* orange, <= -2 red, the remaining band (0) blue, and no product in these
\* bands raises.
C8_ColorBands ==
    ret.op = "color" =>
        LET product == RetGoal.dictionary.lane * RetGoal.dictionary.yaw
        IN  /\ ~ret.raised
            /\ ret.val = IF product > 1 THEN "green"
                         ELSE IF product = 1 THEN "yellow"
                         ELSE IF product = 0 - 1 THEN "orange"
                         ELSE IF product <= 0 - 2 THEN "red"
                         ELSE "blue"

\* C10: every snapshot resolves to exactly one variant, by the first rule
\* that matches: registered slug, then autodata null or "api" (Plain), then
\* autodata "toggl", then Remote-refresh; construction never raises.
C10_Dispatch ==
    /\ pc # "raised"
    /\ \A i \in DOMAIN goals :
        LET g == goals[i]
        IN  /\ g.slug \in DOMAIN custom_goals => g.cls = custom_goals[g.slug]
            /\ g.slug \notin DOMAIN custom_goals =>
                /\ g.autodata \in {None, Some("api")} => g.cls = "Goal"
                /\ g.autodata = Some("toggl") => g.cls = "TogglGoal"
                /\ g.autodata \notin {None, Some("api"), Some("toggl")}
                       => g.cls = "RemoteApiGoal"

C10_Witness ==
    /\ pc = "ready"
    /\ goals[1].slug = "jrnl"
    /\ goals[1].autodata = Some("toggl")
    /\ goals[1].cls = "JrnlLengthGoal"

\* ------------------------------------------------------------------------
\* The store: construction and AllGoals.ensure_datapoints (Spec)
\* ------------------------------------------------------------------------

MaxGoals == 2      \* most goals the remote service lists

Future(st, res) == [st |-> st, res |-> res, collected |-> FALSE]

\* ensure_datapoints, entry: one future per goal is submitted to the pool.
HydrateCall ==
    /\ pc = "ready"
    /\ hydPc \in {"idle", "done"}
    /\ futures' = [i \in DOMAIN goals |-> Future("pending", None)]
    /\ hydPc' = "running"
    /\ UNCHANGED <<goals, remote, now, clk, pc, cacheFile, netPulls, fparams,
                   fresult, ret>>

\* A pool thread runs goal.get_full_data up to the answer of its request:
\* the record r, or an exception, which ends the future.
WorkerFetch(i) ==
    /\ hydPc \in {"running", "unwinding"}
    /\ futures[i].st = "pending"
    /\ \E ok \in BOOLEAN :
        futures' = [futures EXCEPT ![i] =
            IF ok THEN [@ EXCEPT !.st = "fetched", !.res = Some(goal_json(goals[i].slug))]
            ELSE [@ EXCEPT !.st = "failed"]]
    /\ UNCHANGED <<goals, remote, now, clk, pc, cacheFile, netPulls, hydPc,
                   fparams, fresult, ret>>

\* The pool thread stores the record (self.dictionary = r) and returns it:
\* the future is done.
WorkerWrite(i) ==
    /\ hydPc \in {"running", "unwinding"}
    /\ futures[i].st = "fetched"
    /\ goals' = [goals EXCEPT ![i] = get_full_data(@, futures[i].res[1])]
    /\ futures' = [futures EXCEPT ![i].st = "done"]
    /\ UNCHANGED <<remote, now, clk, pc, cacheFile, netPulls, hydPc, fparams,
                   fresult, ret>>

\* The goal after the one the future belongs to.
future_goal_next(i) == (i % Len(goals)) + 1

\* futures[future]: the goal a finished future belongs to.
future_goal(i) == i

\* The calling thread takes a finished future from as_completed: it stores
\* future.result() in the goal, or future.result() raises and the exception
\* leaves the loop.
Collect(i) ==
    /\ hydPc = "running"
    /\ futures[i].st \in {"done", "failed"}
    /\ ~futures[i].collected
    /\ IF futures[i].st = "done"
       THEN /\ goals' = [goals EXCEPT ![future_goal(i)].dictionary = futures[i].res[1]]
            /\ futures' = [futures EXCEPT ![i].collected = TRUE]
            /\ hydPc' = hydPc
       ELSE /\ hydPc' = "unwinding"
            /\ UNCHANGED <<goals, futures>>
    /\ UNCHANGED <<remote, now, clk, pc, cacheFile, netPulls, fparams, fresult, ret>>

\* The loop has taken every future: the with block ends and the call returns.
HydrateReturn ==
    /\ hydPc = "running"
    /\ \A i \in DOMAIN futures : futures[i].collected
    /\ hydPc' = "done"
    /\ UNCHANGED <<goals, remote, now, clk, pc, cacheFile, netPulls, futures,
                   fparams, fresult, ret>>

\* The exception leaves the with block once the executor has shut down, which
\* waits for every submitted future; nothing catches it.
HydrateRaise ==
    /\ hydPc = "unwinding"
    /\ \A i \in DOMAIN futures : futures[i].st \in {"done", "failed"}
    /\ hydPc' = "raised"
    /\ pc' = "crashed"
    /\ UNCHANGED <<goals, remote, now, clk, cacheFile, netPulls, futures,
                   fparams, fresult, ret>>

Rate10 == [rate |-> Some(10), mathishard |-> <<0, 0, 10>>]

\* The records of the remote service.  At RateNow: drinks is due today, jrnl
\* falls due within the next half day; toggl-work is on pace; tasker-steps
\* has no datapoints.
StoreRecords ==
    {[Snapshot("drinks", None, "drinker", "d", Rate10,
               <<Datapoint(16, 5)>>, 18, 0 - 1, 1)
        EXCEPT !.last_datapoint = Datapoint(16, 5)],
     [Snapshot("books", None, "biker", "w", Rate10,
               <<Datapoint(0, 0), Datapoint(14, 5)>>, 30, 1, 1)
        EXCEPT !.last_datapoint = Datapoint(14, 5)],
     [Snapshot("toggl-work", Some("toggl"), "hustler", "w", Rate10,
               <<Datapoint(14, 5), Datapoint(16, 5)>>, 40, 2, 1)
        EXCEPT !.last_datapoint = Datapoint(16, 5)],
     [Snapshot("jrnl", Some("api"), "hustler", "d", Rate10,
               <<Datapoint(0, 5)>>, 20, 0, 1)
        EXCEPT !.last_datapoint = Datapoint(0, 5), !.won = TRUE],
     [Snapshot("tasker-steps", None, "gainer", "w", Rate10,
               <<>>, 25, 1, 0 - 1)
        EXCEPT !.title = "Tasker steps", !.won = TRUE]}

\* The lists the remote service may hold: distinct records, in any order.
Stores ==
    {st \in UNION {[1..n -> StoreRecords] : n \in 1..MaxGoals} :
        \A i, j \in DOMAIN st : i # j => st[i] # st[j]}

\* The cache file at start-up: absent, unreadable, or an earlier snapshot of
\* the goals that is younger ("fresh") or older ("stale") than the
\* time-to-live.
CacheStatuses == {"absent", "unreadable", "fresh", "stale"}
CacheFile(status, st) ==
    [status |-> status,
     content |-> IF status \in {"fresh", "stale"}
                 THEN [k \in DOMAIN st |-> [st[k] EXCEPT !.curval = 0 - 1]]
                 ELSE <<>>]

Init ==
    /\ \E st \in Stores, status \in CacheStatuses :
        /\ remote = st
        /\ cacheFile = CacheFile(status, st)
    /\ goals = <<>>
    /\ now = RateNow
    /\ clk = RateNow
    /\ pc = "start"
    /\ netPulls = 0
    /\ futures = Idle
    /\ hydPc = "idle"
    /\ fparams = NoParams
    /\ fresult = <<>>
    /\ ret = NoRet

Next ==
    \/ Construct
    \/ HydrateCall
    \/ \E i \in DOMAIN futures : WorkerFetch(i)
    \/ \E i \in DOMAIN futures : WorkerWrite(i)
    \/ \E i \in DOMAIN futures : Collect(i)
    \/ HydrateReturn
    \/ HydrateRaise

Spec == Init /\ [][Next]_vars

HydrationEnded == hydPc \in {"done", "raised"}
Failed == {i \in DOMAIN futures : futures[i].st = "failed"}

\* C2: when the fetch of one goal fails and that of another succeeds, the call
\* still ends without raising to the caller, and every other goal holds its
\* fetched record.
C2_FailureIsolated ==
    HydrationEnded /\ Failed # {} /\ Failed # DOMAIN futures =>
        /\ hydPc = "done"
        /\ pc # "crashed"
        /\ \A j \in DOMAIN futures \ Failed :
               goals[j].dictionary = futures[j].res[1]

\* C3: in every interleaving each goal only ever holds a record of its own
\* slug, and once the call has ended every goal whose fetch succeeded holds
\* exactly the record fetched for it.
C3_OwnRecord ==
    /\ \A i \in DOMAIN goals : goals[i].dictionary.slug = goals[i].slug
    /\ HydrationEnded =>
        \A i \in DOMAIN futures :
            futures[i].st = "done" =>
                /\ futures[i].res[1].slug = goals[i].slug
                /\ goals[i].dictionary = futures[i].res[1]

C3_Witness ==
    /\ hydPc = "done"
    /\ Len(goals) = 2
    /\ \A i \in DOMAIN goals :
        /\ futures[i].collected
        /\ goals[i].dictionary = goal_json(goals[i].slug)
        /\ goals[i].dictionary.datapoints # <<>>

\* C4: after construction, a fresh cache file means the goals were loaded
\* from it with no network pull; otherwise the goals were pulled and the
\* cache file holds the state now in memory.
C4_CacheOnConstruct ==
    pc = "ready" /\ futures = Idle =>
        IF cacheFile.status = "fresh"
        THEN /\ netPulls = 0
             /\ [k \in DOMAIN goals |-> goals[k].dictionary] = cacheFile.content
        ELSE /\ netPulls = 1
             /\ cacheFile.content = [k \in DOMAIN goals |-> goals[k].dictionary]

\* ------------------------------------------------------------------------
\* AllGoals.filter_goals (SpecFilter)
\* ------------------------------------------------------------------------

\* timedelta(days=d), in half days
days_delta(d) == d * DayLen

\* The predicates of filter_goals that come before the over_rate one, for a
\* goal that is not due today.
before_over_rate(g, p) ==
    /\ p.finished # None => g.won = p.finished[1]
    /\ p.manual # None => is_manual(g) = p.manual[1]
    /\ p.do_less # None => ~is_do_less(g)
    /\ p.done_today # None => is_updated_today(g) = p.done_today[1]

\* The over_rate predicate without its `not`.
over_rate_keeps_match(glyph, over_rate) == (glyph = "Δ") = over_rate

\* The over_rate predicate, given the glyph format_epsilon_delta gave:
\* `not (glyph == "Δ") == over_rate` is `not ((glyph == "Δ") == over_rate)`.
over_rate_keeps(glyph, over_rate) == ~((glyph = "Δ") = over_rate)

\* The predicates that come after the over_rate one.
after_over_rate(g, p) ==
    /\ p.since # None => g.last_datapoint.timestamp < now - days_delta(p.since[1])
    /\ p.days # None => losedate(g) <= now + days_delta(p.days[1])

\* The goals whose evaluation of format_epsilon_delta may make a request.
glyph_fetches(g) == g.format_epsilon_delta = None /\ data_rate_fetches(g)

\* Does the goal get as far as the over_rate predicate?
reaches_over_rate(g, p, t) ==
    /\ p.over_rate # None
    /\ ~is_due_today(g, t)
    /\ before_over_rate(g, p)

\* The evaluations of format_epsilon_delta the over_rate predicate makes;
\* oks[i] tells whether a request made for goals[i] succeeds.
glyph_evals(p, t, oks) ==
    [i \in DOMAIN goals |->
        IF reaches_over_rate(goals[i], p, t)
        THEN format_epsilon_delta_eval(goals[i], goal_json(goals[i].slug), oks[i], t)
        ELSE Outcome(goals[i], FALSE, "")]

\* The chain of predicates on one goal, at time t.
keeps(g, p, t, glyph) ==
    \/ is_due_today(g, t)
    \/ /\ before_over_rate(g, p)
       /\ p.over_rate # None => over_rate_keeps(glyph, p.over_rate[1])
       /\ after_over_rate(g, p)

Least(S, default) == IF S = {} THEN default ELSE CHOOSE k \in S : \A j \in S : k <= j

\* The position in the sorted list at which a predicate raises (one past the
\* end if none does).  The filters are lazy: the goals go through the whole
\* chain one by one, in sorted order, so a raise leaves the later goals
\* untouched.
first_raise(order, ev) ==
    Least({k \in DOMAIN order : ev[order[k]].raised}, Len(order) + 1)

\* list(goals)[: int(n)]
truncate(kept, n) ==
    IF n = None THEN kept
    ELSE SubSeq(kept, 1, IF n[1] < Len(kept) THEN n[1] ELSE Len(kept))

\* The goals as the call leaves them and the list it returns (indices into
\* goals), or the raise.
filter_outcome(p, order, ev, stop, kept) ==
    [goals |-> [i \in DOMAIN goals |->
                    IF \E k \in 1..stop : k <= Len(order) /\ order[k] = i
                    THEN ev[i].goal ELSE goals[i]],
     raised |-> stop <= Len(order),
     list |-> IF stop <= Len(order) THEN <<>> ELSE truncate(kept, p.n)]

filter_chain(p, t, order, ev) ==
    filter_outcome(p, order, ev, first_raise(order, ev),
                   SelectSeq(order, LAMBDA i : keeps(goals[i], p, t, ev[i].val)))

\* filter_goals with arguments p, its predicates evaluated at time t.
filter_goals(p, t, oks) ==
    filter_chain(p, t,
                 sorted([i \in DOMAIN goals |-> i], LAMBDA i : losedate(goals[i])),
                 glyph_evals(p, t, oks))

Params(manual, finished, do_less, done_today, over_rate, n, since, days) ==
    [called |-> TRUE, manual |-> manual, finished |-> finished,
     do_less |-> do_less, done_today |-> done_today, over_rate |-> over_rate,
     n |-> n, since |-> since, days |-> days, at |-> clk]

\* The call filter_goals(**p) that ends at time t with outcome f.
FilterCall(p, t, f) ==
    /\ fparams' = p
    /\ clk' = t
    /\ goals' = f.goals
    /\ fresult' = [raised |-> f.raised, list |-> f.list]
    /\ pc' = "filtered"
    /\ UNCHANGED <<remote, now, cacheFile, netPulls, futures, hydPc, ret>>

OptBool == {None, Some(TRUE), Some(FALSE)}
OptOne == {None, Some(1)}

\* The beeminder command: filter_goals is called once, after the hydration;
\* the clock has advanced by dt when the lazy filters are evaluated.
Filter ==
    /\ pc = "ready"
    /\ hydPc \in {"idle", "done"}
    /\ \E manual \in OptBool, finished \in OptBool, do_less \in OptBool,
          done_today \in OptBool, over_rate \in OptBool,
          n \in OptOne, since \in OptOne, days \in OptOne,
          dt \in 0..MaxTick,
          oks \in [DOMAIN goals -> BOOLEAN] :
        /\ \A i \in DOMAIN goals :
              ~oks[i] => over_rate # None /\ glyph_fetches(goals[i])
        /\ FilterCall(Params(manual, finished, do_less, done_today, over_rate,
                             n, since, days),
                      clk + dt,
                      filter_goals(Params(manual, finished, do_less, done_today,
                                          over_rate, n, since, days),
                                   clk + dt, oks))

\* The lists filter_goals is checked on: latest deadline first, so that the
\* sort has to reverse them.
FilterStores ==
    {st \in Stores :
        \A i, j \in DOMAIN st : i < j => st[i].losedate > st[j].losedate}

\* The state after construction and a hydration in which every fetch
\* succeeded.
InitFilter ==
    /\ \E st \in FilterStores :
        /\ remote = st
        /\ goals = [k \in DOMAIN st |->
                        get_full_data(create_goal(goals_json[k]), st[k])]
        /\ futures = [k \in DOMAIN st |->
                        [st |-> "done", res |-> Some(st[k]), collected |-> TRUE]]
    /\ now = RateNow
    /\ clk = RateNow
    /\ pc = "ready"
    /\ cacheFile = NoCache
    /\ netPulls = 1
    /\ hydPc = "done"
    /\ fparams = NoParams
    /\ fresult = <<>>
    /\ ret = NoRet

NextFilter == Filter

SpecFilter == InitFilter /\ [][NextFilter]_vars

Filtered == fparams.called /\ ~fresult.raised
InResult(i) == \E k \in DOMAIN fresult.list : fresult.list[k] = i

\* C1: every goal that is due today when filter_goals is called is in the
\* list it returns, whatever the other arguments, unless n is set and the list
\* was cut to n goals.
C1_DueTodayKept ==
    Filtered =>
        \A i \in DOMAIN goals :
            losedate(goals[i]) <= fparams.at + H24 =>
                \/ InResult(i)
                \/ fparams.n # None /\ Len(fresult.list) = fparams.n[1]

\* A due-today goal that every active predicate would otherwise exclude.
C1_Witness ==
    /\ Filtered /\ fparams.n = None
    /\ fparams.finished = Some(TRUE) /\ fparams.do_less # None
    /\ fparams.manual = Some(FALSE) /\ fparams.over_rate # None
    /\ fparams.days # None /\ fparams.since # None
    /\ \E i \in DOMAIN goals :
        /\ losedate(goals[i]) <= fparams.at + H24
        /\ ~goals[i].won /\ is_do_less(goals[i]) /\ is_manual(goals[i])
        /\ InResult(i)

\* The glyph of a goal, as the over_rate predicate saw it.
OnPace(i) == goals[i].format_epsilon_delta = Some("Δ")
NotDue(i) == ~(losedate(goals[i]) <= clk + H24)
OnlyOverRate ==
    /\ Filtered /\ fparams.over_rate # None /\ fparams.n = None
    /\ fparams.finished = None /\ fparams.manual = None /\ fparams.do_less = None
    /\ fparams.done_today = None /\ fparams.since = None /\ fparams.days = None

OverRateActive == Filtered /\ fparams.over_rate # None

\* C9 as claimed: with over_rate = v active, a goal that is not due today is
\* kept only if (its glyph is the on-pace glyph) = v, and, no other filter
\* being active, whenever that is so.
C9_Original ==
    OverRateActive =>
        \A i \in DOMAIN goals :
            NotDue(i) =>
                /\ InResult(i) => (OnPace(i) = fparams.over_rate[1])
                /\ OnlyOverRate /\ (OnPace(i) = fparams.over_rate[1]) => InResult(i)

\* C9 (amended): with over_rate = v active, a goal that is not due today is
\* kept only if (its glyph is the on-pace glyph) differs from v, and, no other
\* filter being active, whenever that is so: over_rate = true keeps exactly
\* the goals that are not on pace.
C9_OverRateExcludes ==
    OverRateActive =>
        \A i \in DOMAIN goals :
            NotDue(i) =>
                /\ InResult(i) => (OnPace(i) # fparams.over_rate[1])
                /\ OnlyOverRate /\ (OnPace(i) # fparams.over_rate[1]) => InResult(i)

C9_Witness ==
    /\ OnlyOverRate /\ fparams.over_rate = Some(TRUE)
    /\ \E i, j \in DOMAIN goals :
        /\ NotDue(i) /\ OnPace(i) /\ ~InResult(i)
        /\ NotDue(j) /\ ~OnPace(j) /\ InResult(j)

\* ------------------------------------------------------------------------
\* One goal picked from the store, then read, hydrated and updated (SpecStore)
\* ------------------------------------------------------------------------

\* The goals of gs whose slug is the argument, as positions in store order.
matching(gs, slug) == {i \in DOMAIN gs : gs[i].slug = slug}

\* pick_goal taking the last match of the comprehension.
pick_goal_last(gs, slug) ==
    IF matching(gs, slug) = {} THEN 0
    ELSE CHOOSE i \in matching(gs, slug) : \A j \in matching(gs, slug) : j <= i

\* AllGoals.pick_goal: element [0] of the list comprehension over self.goals,
\* as a position in the store; 0 stands for the IndexError that [0] raises
\* on the empty list.
pick_goal(gs, slug) == Least(matching(gs, slug), 0)

PickParams(slug) == [called |-> FALSE, slug |-> slug]

\* A command picks its goal: once, before anything else is done.
PickGoal(slug) ==
    /\ pc = "ready"
    /\ hydPc = "idle"
    /\ ret = NoRet
    /\ fparams' = PickParams(slug)
    /\ ret' = IF pick_goal(goals, slug) = 0
              THEN Raised("pick_goal", 0, "IndexError")
              ELSE Returned("pick_goal", pick_goal(goals, slug), slug, clk)
    /\ UNCHANGED <<goals, remote, now, clk, pc, cacheFile, netPulls, futures,
                   hydPc, fresult>>

\* The goal object the caller holds: the one pick_goal returned, on which
\* every later call of the command is made.
Picked(i) ==
    /\ pc = "ready"
    /\ hydPc = "idle"
    /\ ret.op # "none"
    /\ ret.goal = i

\* The position in the service's list of the record a request for slug reaches.
record_index(slug) == Least({k \in DOMAIN remote : remote[k].slug = slug}, 0)

\* The service's side of the POST of increment_beeminder: the datapoint is
\* appended to the record, whose current value and last datapoint follow it.
post_datapoint(r, v, t) ==
    [r EXCEPT !.datapoints = Append(@, Datapoint(t, v)),
              !.curval = IF r.goal_type \in CumulativeTypes THEN @ + v ELSE v,
              !.last_datapoint = Datapoint(t, v)]

\* The service's list once the POST of value v for slug is answered.
increment_beeminder(slug, v) ==
    [remote EXCEPT ![record_index(slug)] = post_datapoint(@, v, clk)]

\* The value Goal.update posts: `if value is None: value = 1`.
update_value(value) == IF value = None THEN 1 ELSE value[1]

RemoteClasses == {"RemoteApiGoal", "TogglGoal"}
UpdateValues == {None, Some(5)}
\* What the integration of a registry goal computes (get_count, get_dates).
ExternalValues == {2}
\* What the autodata source has for the service when its graph is refreshed.
AutodataValues == {None, Some(5)}

\* The value that reaches Goal.update for a goal of class cls called with
\* value: the registry classes ignore the arguments and pass the count ext.
update_argument(cls, value, ext) ==
    IF cls = "Goal" THEN value ELSE Some(ext)

\* The service's list after the request update makes before get_full_data:
\* refresh_graph for the remote classes (the service takes in what the
\* autodata source has, auto), the POST of the value for the others.
update_request(g, value, ext, auto) ==
    IF g.cls \in RemoteClasses THEN
        IF auto = None THEN remote
        ELSE increment_beeminder(g.slug, auto[1])
    ELSE increment_beeminder(g.slug, update_value(update_argument(g.cls, value, ext)))

\* The end of update on goals[i]: rem is the service's list after the first
\* request, okReq and okGet tell whether that request and the one of
\* get_full_data are answered.  A request that fails raises.
update_outcome(i, rem, okReq, okGet) ==
    /\ remote' = IF okReq THEN rem ELSE remote
    /\ goals' = IF okReq /\ okGet
                THEN [goals EXCEPT ![i] =
                        get_full_data(@, rem[record_index(goals[i].slug)])]
                ELSE goals
    /\ ret' = IF okReq /\ okGet THEN Returned("update", i, "done", clk)
              ELSE Raised("update", i, "ConnectionError")
    /\ UNCHANGED <<now, clk, pc, cacheFile, netPulls, futures, hydPc, fparams,
                   fresult>>

\* goal.update(value) on the picked goal.  The service keeps at most MaxDps
\* datapoints per record.
Update(i, value) ==
    /\ Picked(i)
    /\ Len(remote[record_index(goals[i].slug)].datapoints) < MaxDps
    /\ \E ext \in ExternalValues, auto \in AutodataValues,
          okReq \in BOOLEAN, okGet \in BOOLEAN :
        update_outcome(i, update_request(goals[i], value, ext, auto),
                       okReq, okGet)

\* goal.ensure_datapoints() on the picked goal; the value returned to the
\* model tells whether get_full_data was called.
EnsureDatapoints(i) ==
    /\ Picked(i)
    /\ \E ok \in Oks(needs_fetch(goals[i])) :
        /\ goals' = IF ok
                    THEN [goals EXCEPT ![i] =
                            ensure_datapoints(@, goal_json(goals[i].slug))]
                    ELSE goals
        /\ ret' = IF ok THEN Returned("ensure_datapoints", i,
                                      needs_fetch(goals[i]), clk)
                  ELSE Raised("ensure_datapoints", i, "ConnectionError")
    /\ UNCHANGED <<remote, now, clk, pc, cacheFile, netPulls, futures, hydPc,
                   fparams, fresult>>

\* A second record of the service under the slug of another one.
BooksTwin ==
    [Snapshot("books", None, "hustler", "d", Rate10,
              <<Datapoint(16, 5)>>, 22, 2, 1)
        EXCEPT !.title = "Books (old)", !.curval = 7,
               !.last_datapoint = Datapoint(16, 5)]

\* The lists the service may answer goals.json with: the code builds the
\* store from whatever it is sent and never checks that the slugs differ.
StoreLists == UNION {[1..n -> StoreRecords \cup {BooksTwin}] : n \in 1..MaxGoals}

PickSlugs == {r.slug : r \in StoreRecords} \cup {"missing-slug"}

\* The state after AllGoals.__init__ has returned.
InitStore ==
    /\ \E st \in StoreLists :
        /\ remote = st
        /\ goals = [k \in DOMAIN st |->
                        create_goal([st[k] EXCEPT !.datapoints = <<>>])]
    /\ now = RateNow
    /\ clk = RateNow
    /\ pc = "ready"
    /\ cacheFile = NoCache
    /\ netPulls = 1
    /\ futures = Idle
    /\ hydPc = "idle"
    /\ fparams = NoParams
    /\ fresult = <<>>
    /\ ret = NoRet

NextStore ==
    \/ \E slug \in PickSlugs : PickGoal(slug)
    \/ \E i \in DOMAIN goals : EnsureDatapoints(i)
    \/ \E i \in DOMAIN goals, value \in UpdateValues : Update(i, value)
    \/ \E i \in DOMAIN goals : Picked(i) /\ ReadDataRate(i)
    \/ \E i \in DOMAIN goals : Picked(i) /\ ReadFormatEpsilonDelta(i)

SpecStore == InitStore /\ [][NextStore]_vars

\* The store as AllGoals.__init__ built it from the service's list.
AsConstructed ==
    goals = [k \in DOMAIN remote |->
                create_goal([remote[k] EXCEPT !.datapoints = <<>>])]

PickReturned == ret.op = "pick_goal" /\ ~ret.raised
PickRaised == ret.op = "pick_goal" /\ ret.raised

\* C11: pick_goal(slug) returns the first goal of the store, in store order,
\* whose slug is the argument; when no goal has that slug it raises (the
\* IndexError of [0] on the empty list), returns no goal and leaves the
\* store as it was.
C11_PickGoal ==
    ret.op = "pick_goal" =>
        IF \E i \in DOMAIN goals : goals[i].slug = fparams.slug
        THEN /\ PickReturned
             /\ goals[ret.goal].slug = fparams.slug
             /\ \A j \in 1..(ret.goal - 1) : goals[j].slug # fparams.slug
             /\ AsConstructed
        ELSE /\ PickRaised
             /\ ret.exc = "IndexError"
             /\ ret.goal \notin DOMAIN goals
             /\ AsConstructed

\* A lookup that misses on a store of two goals.
C11_Witness ==
    /\ PickRaised
    /\ Len(goals) >= 2
    /\ \A i \in DOMAIN goals : goals[i].slug # fparams.slug

\* A lookup on a store holding two goals of the slug asked for.
C11_Duplicates ==
    /\ PickReturned
    /\ Cardinality(matching(goals, fparams.slug)) >= 2

\* The last call on the picked goal returned from get_full_data: an update,
\* or an ensure_datapoints that fetched.
GotFullData(r) ==
    /\ r.op \in {"update", "ensure_datapoints"}
    /\ ~r.raised
    /\ r.op = "ensure_datapoints" => r.val

\* Goal.data_rate computed at time t from the datapoints the goal holds.
fresh_data_rate(g, t) == data_rate_body(g, g.dictionary, t)

\* C12: once the snapshot of a goal has been replaced by get_full_data (in
\* ensure_datapoints or in update), the next read of data_rate returns the
\* value computed from the datapoints the goal now holds, not one memoized
\* before the replacement.
C12_NeverStale ==
    [][GotFullData(ret) /\ ret'.op = "data_rate" /\ ~ret'.raised
          => ret'.val = fresh_data_rate(goals'[ret'.goal], ret'.at)]_vars

\* The attributes Goal.__init__ copied agree with the record the goal holds.
snapshot_consistent(g) ==
    /\ g.curval = g.dictionary.curval
    /\ g.safebump = g.dictionary.safebump
    /\ g._losedate = g.dictionary.losedate
    /\ g.last_datapoint = g.dictionary.last_datapoint
    /\ g.won = g.dictionary.won

\* C13: when get_full_data has returned (in ensure_datapoints on a goal
\* without datapoints, or in update), curval, safebump, the losedate, the
\* last datapoint and won of the goal are those of the fetched record its
\* datapoints come from; ensure_datapoints on a goal that has datapoints
\* makes no request and changes nothing.
C13_FullSnapshot ==
    [][/\ GotFullData(ret') => snapshot_consistent(goals'[ret'.goal])
       /\ ret'.op = "ensure_datapoints" /\ ~needs_fetch(goals[ret'.goal])
             => /\ ~ret'.raised
                /\ ~ret'.val
                /\ goals' = goals
                /\ remote' = remote]_vars

====
